---- MODULE Spec2Model ----
(***************************************************************************)
(* The frame render graph of the voxel pipeline (voxel_pipeline/mod.rs),   *)
(* the Trace node (trace/node.rs), the per-view uniform preparation        *)
(* (trace/mod.rs) and the attachment set of a view (attachments.rs).       *)
(*                                                                         *)
(* The specifications of the module, each leaving the variables of the     *)
(* others at their initial values:                                         *)
(*   SpecGraph           one frame after another of the render graph       *)
(*   SpecCameras         prepare_uniforms and the LastCameras table        *)
(*   SpecTraceSettings   prepare_uniforms under changing TraceSettings     *)
(*   SpecAttachments     add_render_attachments and resize_attachments     *)
(*   SpecPhysics         the physics slot table and the Physics pass       *)
(*   SpecVoxelization    queue_bind_group and the uniform table            *)
(*   SpecVoxelCameras    update_cameras                                    *)
(*   SpecDisabledPasses  queue_custom and the frames of the graph          *)
(***************************************************************************)
EXTENDS Integers, Sequences, FiniteSets, TLC

\* ------------------------------------------------------------------ bounds
MaxViews == 2

\* The camera matrices (projection * inverse view) a view can have.
NumMats == 2

\* Viewport sizes are <<width, height>> with these largest sides.
MaxWidth == 2

MaxHeight == 1

\* TraceSettings.samples is 1..MaxSamples.
MaxSamples == 2

\* The entities that can be physics-active.
MaxEntities == 3

\* The slots the physics buffer holds: MAX_TYPE_BUFFER_DATA elements over the
\* elements of one slot, scaled down.
MaxSlots == 2

\* The entities that can have a VoxelizationMaterial.
MaxVoxEntities == 2

\* VoxelUniforms.texture_size is 1..MaxTextureSize.
MaxTextureSize == 5

\* View entities. An Entity is an (index, generation) pair, so an identity is
\* never handed out twice; a view that goes away and comes back under the same
\* identity is a camera that was deactivated and activated again.
Views == 1..MaxViews
NoView == 0

VARIABLES
    \* ---- render world, render graph (SpecGraph)
    settings,           \* RenderGraphSettings, as extracted
    views,              \* the views the camera driver runs VoxelGraph for
    renderAttachments,  \* view -> its extracted RenderAttachments, or NoAttachments
    gpuImages,          \* the image handles RenderAssets<Image> holds
    pipelineReady,      \* the pipeline cache has the trace pipeline
    phase,              \* "idle", "queued", "running", "done", "crashed"
    mainRan,            \* main graph node -> how often it ran this frame
    viewRan,            \* view -> sub graph node -> how often it ran for the view
    queue,              \* the sub graph runs the camera driver queued
    cur,                \* the view whose sub graph is being run
    dispatched,         \* <<view, node>>: the passes that recorded work this frame
    slots,              \* view -> what its Attachments node put in its output slots
    traceBind,          \* view -> the textures the Trace node bound, and from where
    \* ---- render world, prepare_uniforms (SpecCameras)
    last_cameras,       \* LastCameras: view -> the matrix kept for it, or NoMat
    uniforms,           \* view -> the TraceUniforms written for it this frame
    frameCamera,        \* view -> its camera matrix in the latest frame
    seen,               \* the views processed in at least one frame
    firstFrame,         \* the views the latest frame processed for the first time
    trace_settings,     \* view -> its extracted TraceSettings
    \* ---- main world, attachments (SpecAttachments)
    cameras,            \* the entities that have TraceSettings and a Camera
    viewport,           \* camera -> its physical_viewport_size(), or NoSize
    render_attachments, \* camera -> its RenderAttachments, or NoRenderAttachments
    images,             \* Assets<Image>: handle -> the image's size, or NoSize
    commands,           \* the inserts add_render_attachments has queued
    schedule,           \* the systems of PostUpdate that ran this frame
    processed,          \* the cameras resize_attachments got to this frame
    sizeBefore,         \* camera -> the current_size resize_attachments found
    resizes,            \* handle -> the resize calls on the image this frame
    panicked,           \* resize_attachments unwrapped a missing viewport size
    \* ---- physics slot table and buffers (SpecPhysics)
    physics_active,     \* the entities that are physics-active in the main world
    entities,           \* PhysicsData.entities: entity -> its slot, or NoSlot
    dispatch_size,      \* PhysicsData.dispatch_size
    excluded,           \* the entities the latest rebuild left without a slot
    dropped,            \* the entities whose entry the latest rebuild removed
    physics_buffer_gpu, \* slot -> the state of the slot's region of the buffer
    voxel_world,        \* the state of the voxel world's buffer
    physStage,          \* "update", "extracted", "passed"
    physChanged,        \* the latest Physics pass changed a buffer
    \* ---- voxelization (SpecVoxelization)
    voxelization_materials, \* entity -> its extracted VoxelizationMaterial, or NoMaterial
    voxelization_uniforms,  \* VoxelizationUniformsResource: entity -> uniforms, or NoEntry
    swept,                  \* the entities whose entry the latest queue_bind_group removed
    texture_size,           \* VoxelUniforms.texture_size
    voxelization_image,     \* the edge length of the voxelization image
    voxelization_cameras,   \* camera -> the direction and the size it was last set for
    edgeBefore,             \* the image's edge when the latest update_cameras started
    rewritten,              \* the latest update_cameras resized the image or wrote a camera
    camerasUpdated,         \* update_cameras ran since the texture size last changed
    \* ---- render world, voxelization draw items (SpecDisabledPasses)
    transparent_phase,      \* <<view, entity>>: the items queue_custom added this frame
    drawable                \* the entities queue_custom found drawable this frame

graphVars == <<settings, views, renderAttachments, gpuImages, pipelineReady, phase,
               mainRan, viewRan, queue, cur, dispatched, slots, traceBind>>

camVars == <<last_cameras, uniforms, frameCamera, seen, firstFrame, trace_settings>>

attVars == <<cameras, viewport, render_attachments, images, commands, schedule,
             processed, sizeBefore, resizes, panicked>>

physVars == <<physics_active, entities, dispatch_size, excluded, dropped,
              physics_buffer_gpu, voxel_world, physStage, physChanged>>

voxVars == <<voxelization_materials, voxelization_uniforms, swept, texture_size, voxelization_image,
             voxelization_cameras, edgeBefore, rewritten, camerasUpdated>>

drawVars == <<transparent_phase, drawable>>

vars == <<graphVars, camVars, attVars, physVars, voxVars, drawVars>>

\* ------------------------------------------------------- RenderGraphSettings
SettingNames == {"clear", "automata", "animation", "voxelization", "rebuild",
                 "physics", "trace"}

DefaultSettings == [s \in SettingNames |-> TRUE]

\* ------------------------------------------------------------ the two graphs
RenderGraphLabel == {"Clear", "Automata", "Animation"}

VoxelGraphLabel == {"Attachments", "Trace", "Tonemapping", "Fxaa", "Ui", "Upscaling",
                    "Rebuild", "Physics"}

CameraDriverLabel == "CameraDriver"

MainNodes == RenderGraphLabel \cup {CameraDriverLabel}

\* as MainEdges, without the edge from Animation to the camera driver
MainEdges_NoDriverEdge ==
    { <<"Clear", "Automata">>,
      <<"Automata", "Animation">> }

MainEdges ==
    { <<"Clear", "Automata">>,
      <<"Automata", "Animation">>,
      <<"Animation", CameraDriverLabel>> }

VoxelNodes == VoxelGraphLabel

\* as VoxelNodeEdges, without the edge from Physics to Trace
VoxelNodeEdges_NoPhysicsTrace ==
    { <<"Trace", "Tonemapping">>,
      <<"Tonemapping", "Fxaa">>,
      <<"Fxaa", "Ui">>,
      <<"Ui", "Upscaling">>,
      <<"Rebuild", "Physics">> }

VoxelNodeEdges ==
    { <<"Trace", "Tonemapping">>,
      <<"Tonemapping", "Fxaa">>,
      <<"Fxaa", "Ui">>,
      <<"Ui", "Upscaling">>,
      <<"Rebuild", "Physics">>,
      <<"Physics", "Trace">> }

\* as VoxelSlotEdges, with no slot edge added
VoxelSlotEdges_None == {}

\* <<output node, output slot, input node, input slot>>
VoxelSlotEdges ==
    { <<"Attachments", "normal", "Trace", "normal">>,
      <<"Attachments", "position", "Trace", "position">> }

\* A slot edge orders its two nodes as a node edge does.
VoxelEdges == VoxelNodeEdges \cup {<<e[1], e[3]>> : e \in VoxelSlotEdges}

\* The graph runner: a node runs once, after the source of each of its input
\* edges has run; nodes that no edge orders run in either order.
InputNodes(edges, n) == {e[1] : e \in {x \in edges : x[2] = n}}

\* The nodes of a graph that have run this frame, from their run counts.
Ran(count) == {n \in DOMAIN count : count[n] > 0}

Runnable(nodes, edges, count, n) ==
    /\ n \in nodes
    /\ count[n] = 0
    /\ InputNodes(edges, n) \subseteq Ran(count)

NoneRan(nodes) == [n \in nodes |-> 0]

\* ----------------------------------------------------------- render world
NoAttachments == [normal |-> 0, position |-> 0]

\* The handles add_render_attachments gave the view's two images.
AttachmentsOf(v) == [normal |-> 2 * v - 1, position |-> 2 * v]

NoSlots == [normal |-> 0, position |-> 0]

NoBind == [normal |-> 0, position |-> 0, from |-> "none"]

HandlesOf(v) == {renderAttachments[v].normal, renderAttachments[v].position} \ {0}

GraphInit ==
    /\ settings = DefaultSettings
    /\ views = {}
    /\ renderAttachments = [v \in Views |-> NoAttachments]
    /\ gpuImages = {}
    /\ pipelineReady = FALSE
    /\ phase = "idle"
    /\ mainRan = NoneRan(MainNodes)
    /\ viewRan = [v \in Views |-> NoneRan(VoxelNodes)]
    /\ queue = {}
    /\ cur = NoView
    /\ dispatched = {}
    /\ slots = [v \in Views |-> NoSlots]
    /\ traceBind = [v \in Views |-> NoBind]

frameVars == <<phase, mainRan, viewRan, queue, cur, dispatched, slots, traceBind>>

worldVars == <<settings, views, renderAttachments, gpuImages, pipelineReady>>

\* ---- between two frames: what extraction and asset preparation bring
SetSetting(s) ==
    /\ phase = "idle"
    /\ settings' = [settings EXCEPT ![s] = ~@]
    /\ UNCHANGED <<views, renderAttachments, gpuImages, pipelineReady, frameVars, camVars, attVars, physVars, voxVars, drawVars>>

ExtractView(v) ==
    /\ phase = "idle"
    /\ v \notin views
    /\ views' = views \cup {v}
    /\ UNCHANGED <<settings, renderAttachments, gpuImages, pipelineReady, frameVars, camVars, attVars, physVars, voxVars, drawVars>>

RemoveView(v) ==
    /\ phase = "idle"
    /\ v \in views
    /\ views' = views \ {v}
    /\ gpuImages' = gpuImages \ HandlesOf(v)
    /\ renderAttachments' = [renderAttachments EXCEPT ![v] = NoAttachments]
    /\ UNCHANGED <<settings, pipelineReady, frameVars, camVars, attVars, physVars, voxVars, drawVars>>

ExtractAttachments(v) ==
    /\ phase = "idle"
    /\ v \in views
    /\ renderAttachments[v] = NoAttachments
    /\ renderAttachments' = [renderAttachments EXCEPT ![v] = AttachmentsOf(v)]
    /\ UNCHANGED <<settings, views, gpuImages, pipelineReady, frameVars, camVars, attVars, physVars, voxVars, drawVars>>

PrepareImage(h) ==
    /\ phase = "idle"
    /\ h \notin gpuImages
    /\ \E v \in views : h \in HandlesOf(v)
    /\ gpuImages' = gpuImages \cup {h}
    /\ UNCHANGED <<settings, views, renderAttachments, pipelineReady, frameVars, camVars, attVars, physVars, voxVars, drawVars>>

PipelineCompiled ==
    /\ phase = "idle"
    /\ ~pipelineReady
    /\ pipelineReady' = TRUE
    /\ UNCHANGED <<settings, views, renderAttachments, gpuImages, frameVars, camVars, attVars, physVars, voxVars, drawVars>>

\* ---- the main graph
InFrame == phase \in {"idle", "queued", "running"}

\* A compute node records its dispatch unless its setting is off.
Dispatch(enabled, v, n) == IF enabled THEN dispatched \cup {<<v, n>>} ELSE dispatched

RunMain(n, enabled) ==
    /\ InFrame
    /\ Runnable(MainNodes, MainEdges, mainRan, n)
    /\ phase' = "running"
    /\ mainRan' = [mainRan EXCEPT ![n] = @ + 1]
    /\ dispatched' = Dispatch(enabled, NoView, n)
    /\ UNCHANGED <<viewRan, cur, slots, traceBind, worldVars, camVars, attVars, physVars, voxVars, drawVars>>

ClearNode_run == RunMain("Clear", settings.clear) /\ UNCHANGED queue

AutomataNode_run == RunMain("Automata", settings.automata) /\ UNCHANGED queue

AnimationNode_run == RunMain("Animation", settings.animation) /\ UNCHANGED queue

\* The camera driver queues one run of the sub graph per view; the runner runs
\* them one after the other, in the order of the cameras, once the node has returned.
CameraDriverNode_run == RunMain(CameraDriverLabel, FALSE) /\ queue' = views

SubGraphDone(v) == VoxelNodes \subseteq Ran(viewRan[v])

\* No sub graph is being run.
RunnerFree == IF cur = NoView THEN TRUE ELSE SubGraphDone(cur)

\* The views are numbered in the order in which the driver sorts their cameras.
RunSubGraph(v) ==
    /\ phase = "running"
    /\ v \in queue
    /\ \A w \in queue : v <= w
    /\ RunnerFree
    /\ cur' = v
    /\ queue' = queue \ {v}
    /\ UNCHANGED <<phase, mainRan, viewRan, dispatched, slots, traceBind, worldVars, camVars, attVars, physVars, voxVars, drawVars>>

\* ---- the sub graph of one view
RunView(v, n) ==
    /\ phase = "running"
    /\ cur = v
    /\ Runnable(VoxelNodes, VoxelEdges, viewRan[v], n)
    /\ viewRan' = [viewRan EXCEPT ![v][n] = @ + 1]
    /\ UNCHANGED <<mainRan, queue, cur, worldVars, camVars, attVars, physVars, voxVars, drawVars>>

\* The node hands the view's two attachment textures to its output slots; a view
\* without the component, or whose images are not on the GPU, gets none.
AttachmentsNode_run(v) ==
    /\ RunView(v, "Attachments")
    /\ slots' = [slots EXCEPT ![v] =
                    IF HandlesOf(v) # {} /\ HandlesOf(v) \subseteq gpuImages
                    THEN renderAttachments[v] ELSE NoSlots]
    /\ UNCHANGED <<phase, dispatched, traceBind>>

RebuildNode_run(v) ==
    /\ RunView(v, "Rebuild")
    /\ dispatched' = Dispatch(settings.rebuild, v, "Rebuild")
    /\ UNCHANGED <<phase, slots, traceBind>>

PhysicsNode_run(v) ==
    /\ RunView(v, "Physics")
    /\ dispatched' = Dispatch(settings.physics, v, "Physics")
    /\ UNCHANGED <<phase, slots, traceBind>>

\* The view has the components of TraceNode's ViewQuery. Every view gets its
\* ViewTraceUniformBuffer in the frame's prepare step.
ViewQueryMatches(v) == renderAttachments[v] # NoAttachments

\* as TraceOutcome, looking the images up before the pipeline
TraceOutcome_ImagesFirst(v) ==
    IF ~ViewQueryMatches(v) THEN "skip"
    ELSE IF ~settings.trace THEN "skip"
    ELSE IF renderAttachments[v].normal \notin gpuImages THEN "panic"
    ELSE IF renderAttachments[v].position \notin gpuImages THEN "panic"
    ELSE IF ~pipelineReady THEN "skip"
    ELSE "pass"

\* What TraceNode::run does for the view: "skip" (Ok(()) and nothing recorded),
\* "panic" (an expect on a missing GPU image) or "pass" (the render pass).
TraceOutcome(v) ==
    IF ~ViewQueryMatches(v) THEN "skip"
    ELSE IF ~settings.trace THEN "skip"
    ELSE IF ~pipelineReady THEN "skip"
    ELSE IF renderAttachments[v].normal \notin gpuImages THEN "panic"
    ELSE IF renderAttachments[v].position \notin gpuImages THEN "panic"
    ELSE "pass"

\* The two textures come from the view query's RenderAttachments, looked up in
\* RenderAssets<Image>; the graph context (and with it the input slots) is unused.
TraceBinding(v) ==
    [normal |-> renderAttachments[v].normal,
     position |-> renderAttachments[v].position,
     from |-> "view_query"]

TraceNode_run(v) ==
    /\ RunView(v, "Trace")
    /\ phase' = IF TraceOutcome(v) = "panic" THEN "crashed" ELSE phase
    /\ traceBind' = IF TraceOutcome(v) = "pass"
                    THEN [traceBind EXCEPT ![v] = TraceBinding(v)] ELSE traceBind
    /\ dispatched' = Dispatch(TraceOutcome(v) = "pass", v, "Trace")
    /\ UNCHANGED slots

\* Tonemapping, Fxaa, Ui, Upscaling: the engine's own nodes.
PostNodes == {"Tonemapping", "Fxaa", "Ui", "Upscaling"}

PostNode_run(v, n) ==
    /\ n \in PostNodes
    /\ RunView(v, n)
    /\ UNCHANGED <<phase, dispatched, slots, traceBind>>

\* ---- the end of the frame
GraphDone ==
    /\ MainNodes \subseteq Ran(mainRan)
    /\ queue = {}
    /\ RunnerFree

FinishFrame ==
    /\ phase = "running"
    /\ GraphDone
    /\ phase' = "done"
    /\ UNCHANGED <<mainRan, viewRan, queue, cur, dispatched, slots, traceBind, worldVars, camVars, attVars, physVars, voxVars, drawVars>>

NextFrame ==
    /\ phase = "done"
    /\ phase' = "idle"
    /\ mainRan' = NoneRan(MainNodes)
    /\ viewRan' = [v \in Views |-> NoneRan(VoxelNodes)]
    /\ queue' = {}
    /\ cur' = NoView
    /\ dispatched' = {}
    /\ slots' = [v \in Views |-> NoSlots]
    /\ traceBind' = [v \in Views |-> NoBind]
    /\ transparent_phase' = {}
    /\ drawable' = {}
    /\ UNCHANGED <<worldVars, camVars, attVars, physVars, voxVars>>

\* Everything but the change of a setting.
GraphFrame ==
    \/ \E v \in Views : ExtractView(v)
    \/ \E v \in Views : RemoveView(v)
    \/ \E v \in Views : ExtractAttachments(v)
    \/ \E v \in Views : \E h \in HandlesOf(v) : PrepareImage(h)
    \/ PipelineCompiled
    \/ ClearNode_run
    \/ AutomataNode_run
    \/ AnimationNode_run
    \/ CameraDriverNode_run
    \/ \E v \in Views : RunSubGraph(v)
    \/ \E v \in Views : AttachmentsNode_run(v)
    \/ \E v \in Views : RebuildNode_run(v)
    \/ \E v \in Views : PhysicsNode_run(v)
    \/ \E v \in Views : TraceNode_run(v)
    \/ \E v \in Views : \E n \in PostNodes : PostNode_run(v, n)
    \/ FinishFrame
    \/ NextFrame

GraphNext ==
    \/ \E s \in SettingNames : SetSetting(s)
    \/ GraphFrame

\* ======================================================================
\* prepare_uniforms and the LastCameras table (trace/mod.rs)
\* ======================================================================
Mats == 1..NumMats

NoMat == 0

NoUniforms ==
    [camera |-> NoMat, last_camera |-> NoMat, show_ray_steps |-> 0, samples |-> 0,
     shadows |-> 0]

\* The values of a bool field as u32.
Flags == {0, 1}

\* TraceSettings { show_ray_steps, samples, shadows }
TraceSettings == [show_ray_steps : Flags, samples : 1..MaxSamples, shadows : Flags]

\* TraceSettings::default()
DefaultTraceSettings == [show_ray_steps |-> 0, samples |-> 1, shadows |-> 1]

CamInit ==
    /\ trace_settings = [e \in Views |-> DefaultTraceSettings]
    /\ last_cameras = [e \in Views |-> NoMat]
    /\ uniforms = [e \in Views |-> NoUniforms]
    /\ frameCamera = [e \in Views |-> NoMat]
    /\ seen = {}
    /\ firstFrame = {}

\* The keys of the table.
LastCameraKeys == {e \in Views : last_cameras[e] # NoMat}

\* as LastCameraOf, with the identity matrix for a view that has no entry
LastCameraOf_Identity(table, e, camera) == IF table[e] # NoMat THEN table[e] ELSE 1

\* *last_cameras.get(&entity).unwrap_or(&camera)
LastCameraOf(table, e, camera) == IF table[e] # NoMat THEN table[e] ELSE camera

\* as InsertLastCameras, keeping only the views of this frame
InsertLastCameras_Pruned(table, query, cam) ==
    [e \in Views |-> IF e \in query THEN cam[e] ELSE NoMat]

\* last_cameras.insert(entity, camera), for every view of the query
InsertLastCameras(table, query, cam) ==
    [e \in Views |-> IF e \in query THEN cam[e] ELSE table[e]]

\* The uniforms of one view: show_ray_steps, samples and shadows are the
\* literals false, 1 and true.
TraceUniformsOf(table, e, camera) ==
    [camera |-> camera,
     last_camera |-> LastCameraOf(table, e, camera),
     show_ray_steps |-> 0,
     samples |-> 1,
     shadows |-> 1]

\* One run of the system: query is the set of views that have an ExtractedView
\* and a ViewTarget this frame, cam the camera matrix of every view. The render
\* world's entities are cleared between frames, so a view outside the query has
\* no ViewTraceUniformBuffer.
prepare_uniforms(query, cam) ==
    /\ uniforms' = [e \in Views |->
                      IF e \in query THEN TraceUniformsOf(last_cameras, e, cam[e])
                      ELSE NoUniforms]
    /\ last_cameras' = InsertLastCameras(last_cameras, query, cam)
    /\ frameCamera' = cam
    /\ firstFrame' = query \ seen
    /\ seen' = seen \cup query
    /\ UNCHANGED <<trace_settings, graphVars, attVars, physVars, voxVars, drawVars>>

\* ExtractComponentPlugin::<TraceSettings>: the view's settings of this frame,
\* as the application set them.
ExtractTraceSettings(e, ts) ==
    /\ ts # trace_settings[e]
    /\ trace_settings' = [trace_settings EXCEPT ![e] = ts]
    /\ UNCHANGED <<last_cameras, uniforms, frameCamera, seen, firstFrame, graphVars, attVars, physVars, voxVars, drawVars>>

CamNext == \E query \in SUBSET Views : \E cam \in [Views -> Mats] : prepare_uniforms(query, cam)

\* ======================================================================
\* The attachment set of a view (attachments.rs), in the main world
\* ======================================================================
\* Viewport sizes: the smallest one, and the ones that differ from it in
\* width only or in height only.
Sizes == {<<w, 1>> : w \in 1..MaxWidth} \cup {<<1, h>> : h \in 1..MaxHeight}

NoSize == <<0, 0>>

\* UVec2::new(1, 1), and the 1x1 Extent3d of the two new images
InitialSize == <<1, 1>>

Handles == 1..(2 * MaxViews)

NoHandle == 0

NoRenderAttachments == [current_size |-> NoSize, normal |-> NoHandle, position |-> NoHandle]

AttInit ==
    /\ cameras = {}
    /\ viewport = [v \in Views |-> NoSize]
    /\ render_attachments = [v \in Views |-> NoRenderAttachments]
    /\ images = [h \in Handles |-> NoSize]
    /\ commands = [v \in Views |-> NoRenderAttachments]
    /\ schedule = {}
    /\ processed = {}
    /\ sizeBefore = [v \in Views |-> NoSize]
    /\ resizes = [h \in Handles |-> 0]
    /\ panicked = FALSE

\* ---- Update: what the application does between two runs of PostUpdate
InUpdate == schedule = {} /\ ~panicked

\* A camera with TraceSettings is spawned; its target info is not computed yet.
SpawnCamera(v) ==
    /\ InUpdate
    /\ v \notin cameras
    /\ cameras' = cameras \cup {v}
    /\ UNCHANGED <<viewport, render_attachments, images, commands, schedule, processed,
                   sizeBefore, resizes, panicked, graphVars, camVars, physVars, voxVars, drawVars>>

\* The entity goes, and with its component the two handles: the images are freed.
DespawnCamera(v) ==
    /\ InUpdate
    /\ v \in cameras
    /\ cameras' = cameras \ {v}
    /\ viewport' = [viewport EXCEPT ![v] = NoSize]
    /\ render_attachments' = [render_attachments EXCEPT ![v] = NoRenderAttachments]
    /\ images' = [h \in Handles |->
                    IF h \in {render_attachments[v].normal, render_attachments[v].position}
                    THEN NoSize ELSE images[h]]
    /\ UNCHANGED <<commands, schedule, processed, sizeBefore, resizes, panicked,
                   graphVars, camVars, physVars, voxVars, drawVars>>

\* The camera's target or viewport changes: a new physical size, or none.
SetViewport(v, size) ==
    /\ InUpdate
    /\ v \in cameras
    /\ size # viewport[v]
    /\ viewport' = [viewport EXCEPT ![v] = size]
    /\ UNCHANGED <<cameras, render_attachments, images, commands, schedule, processed,
                   sizeBefore, resizes, panicked, graphVars, camVars, physVars, voxVars, drawVars>>

\* ---- PostUpdate: the two systems, once each, in either order
\* images.add: a handle no image has.
\* as FreshHandle, handing out the same handle every time
FreshHandle_Same(imgs) == 1

FreshHandle(imgs) == CHOOSE h \in Handles : imgs[h] = NoSize /\ \A g \in Handles : imgs[g] = NoSize => h <= g

Least(S) == CHOOSE x \in S : \A y \in S : x <= y

\* The loop of add_render_attachments over the entities of its query: two
\* images of 1x1 are added per entity, and the insert of the component is queued.
RECURSIVE AddAttachments(_, _, _)
AddAttachments(todo, imgs, cmds) ==
    IF todo = {} THEN [images |-> imgs, commands |-> cmds]
    ELSE LET e == Least(todo)
             normal == FreshHandle(imgs)
             imgs1 == [imgs EXCEPT ![normal] = InitialSize]
             position == FreshHandle(imgs1)
             imgs2 == [imgs1 EXCEPT ![position] = InitialSize]
         IN AddAttachments(todo \ {e}, imgs2,
                [cmds EXCEPT ![e] = [current_size |-> InitialSize, normal |-> normal,
                                     position |-> position]])

\* Query<Entity, (With<TraceSettings>, Without<RenderAttachments>)>
AddQuery == {v \in cameras : render_attachments[v] = NoRenderAttachments}

add_render_attachments ==
    /\ ~panicked
    /\ "add_render_attachments" \notin schedule
    /\ schedule' = schedule \cup {"add_render_attachments"}
    /\ LET r == AddAttachments(AddQuery, images, commands)
       IN /\ images' = r.images
          /\ commands' = r.commands
    /\ UNCHANGED <<cameras, viewport, render_attachments, processed, sizeBefore, resizes,
                   panicked, graphVars, camVars, physVars, voxVars, drawVars>>

\* as NeedsResize, resizing on every run
NeedsResize_Always(size, current_size) == TRUE

\* size != render_attachments.current_size
NeedsResize(size, current_size) == size # current_size

\* Query<(&mut RenderAttachments, &Camera)>
ResizeQuery == {v \in cameras : render_attachments[v] # NoRenderAttachments}

\* The body of the loop for the cameras in P: the recorded size and the two images
\* of a camera whose viewport size differs from the recorded one become that size.
Resized(P) == {v \in P : NeedsResize(viewport[v], render_attachments[v].current_size)}

ResizedHandles(P) ==
    UNION {{render_attachments[v].normal, render_attachments[v].position} : v \in Resized(P)}

OwnerOf(h, P) == CHOOSE v \in Resized(P) : h \in {render_attachments[v].normal, render_attachments[v].position}

ResizeLoop(P) ==
    /\ render_attachments' = [v \in Views |->
          IF v \in Resized(P)
          THEN [render_attachments[v] EXCEPT !.current_size = viewport[v]]
          ELSE render_attachments[v]]
    /\ images' = [h \in Handles |->
          IF h \in ResizedHandles(P) THEN viewport[OwnerOf(h, P)] ELSE images[h]]
    /\ resizes' = [h \in Handles |->
          resizes[h] + Cardinality({v \in Resized(P) : render_attachments[v].normal = h})
                     + Cardinality({v \in Resized(P) : render_attachments[v].position = h})]
    /\ processed' = P
    /\ sizeBefore' = [v \in Views |->
          IF v \in P THEN render_attachments[v].current_size ELSE NoSize]

\* The cameras of the query whose physical_viewport_size() is None.
NoViewport == {v \in ResizeQuery : viewport[v] = NoSize}

\* One run of the system. The unwrap of a missing viewport size panics; the
\* cameras the loop got to before it, in the query's order, are already resized.
resize_attachments ==
    /\ ~panicked
    /\ "resize_attachments" \notin schedule
    /\ schedule' = schedule \cup {"resize_attachments"}
    /\ IF NoViewport = {}
       THEN ResizeLoop(ResizeQuery) /\ panicked' = FALSE
       ELSE \E P \in SUBSET (ResizeQuery \ NoViewport) : ResizeLoop(P) /\ panicked' = TRUE
    /\ UNCHANGED <<cameras, viewport, commands, graphVars, camVars, physVars, voxVars, drawVars>>

\* The end of PostUpdate: the queued inserts are applied, and the next frame
\* starts with nothing recorded.
apply_deferred ==
    /\ ~panicked
    /\ schedule = {"add_render_attachments", "resize_attachments"}
    /\ render_attachments' = [v \in Views |->
          IF commands[v] # NoRenderAttachments THEN commands[v] ELSE render_attachments[v]]
    /\ commands' = [v \in Views |-> NoRenderAttachments]
    /\ schedule' = {}
    /\ processed' = {}
    /\ sizeBefore' = [v \in Views |-> NoSize]
    /\ resizes' = [h \in Handles |-> 0]
    /\ UNCHANGED <<cameras, viewport, images, panicked, graphVars, camVars, physVars, voxVars, drawVars>>

AttNext ==
    \/ \E v \in Views : SpawnCamera(v)
    \/ \E v \in Views : DespawnCamera(v)
    \/ \E v \in Views : \E size \in Sizes \cup {NoSize} : SetViewport(v, size)
    \/ add_render_attachments
    \/ resize_attachments
    \/ apply_deferred

\* ======================================================================
\* The physics slot table and the physics buffers (compute/mod.rs). The
\* systems that rebuild the table and run the pass are in compute/physics.rs;
\* they are modelled from the specification of the Physics Slot Allocator.
\* ======================================================================
PhysEntities == 1..MaxEntities

Slots == 0..(MaxSlots - 1)

NoSlot == -1

\* A region of a buffer is in one of two states; a write moves it to the other.
BufferStates == {"a", "b"}

Written(state) == IF state = "a" THEN "b" ELSE "a"

\* PhysicsData { dispatch_size: 0, buffer_length: 0, entities: HashMap::new(), .. },
\* over buffers of zeroes.
PhysInit ==
    /\ physics_active = {}
    /\ entities = [e \in PhysEntities |-> NoSlot]
    /\ dispatch_size = 0
    /\ excluded = {}
    /\ dropped = {}
    /\ physics_buffer_gpu = [i \in Slots |-> "a"]
    /\ voxel_world = "a"
    /\ physStage = "update"
    /\ physChanged = FALSE

\* ---- Update: entities enter and leave the physics simulation
EnablePhysics(e) ==
    /\ physStage = "update"
    /\ e \notin physics_active
    /\ physics_active' = physics_active \cup {e}
    /\ UNCHANGED <<entities, dispatch_size, excluded, dropped, physics_buffer_gpu,
                   voxel_world, physStage, physChanged, graphVars, camVars, attVars, voxVars, drawVars>>

\* The entity is despawned, or its physics is disabled.
DisablePhysics(e) ==
    /\ physStage = "update"
    /\ e \in physics_active
    /\ physics_active' = physics_active \ {e}
    /\ UNCHANGED <<entities, dispatch_size, excluded, dropped, physics_buffer_gpu,
                   voxel_world, physStage, physChanged, graphVars, camVars, attVars, voxVars, drawVars>>

\* The application switches RenderGraphSettings.physics.
SetPhysicsSetting ==
    /\ physStage = "update"
    /\ settings' = [settings EXCEPT !.physics = ~@]
    /\ UNCHANGED <<views, renderAttachments, gpuImages, pipelineReady, frameVars,
                   camVars, attVars, physVars, voxVars, drawVars>>

\* ---- the rebuild of the slot table, once per frame
\* The orders in which the query can yield the entities of E.
Orders(E) ==
    {o \in [1..Cardinality(E) -> E] : \A i, j \in 1..Cardinality(E) : o[i] = o[j] => i = j}

\* as DispatchSize, without the cap
DispatchSize_Uncapped(n) == n

\* The number of active slots: the entity count, capped at the capacity.
DispatchSize(n) == IF n > MaxSlots THEN MaxSlots ELSE n

\* as AssignSlots, with the slot of an entity taken from its identity
AssignSlots_ByEntity(order, i, table) ==
    [e \in PhysEntities |->
        IF (\E k \in 1..Len(order) : order[k] = e) /\ e - 1 < MaxSlots THEN e - 1 ELSE NoSlot]

\* The table is built from scratch: the entities get the slots 0, 1, .. in the
\* order of the query, and the entities past the capacity get none.
RECURSIVE AssignSlots(_, _, _)
AssignSlots(order, i, table) ==
    IF order = <<>> THEN table
    ELSE IF i < MaxSlots
         THEN AssignSlots(Tail(order), i + 1, [table EXCEPT ![Head(order)] = i])
         ELSE AssignSlots(Tail(order), i, table)

\* The entities that have a slot in the table.
SlotHolders(table) == {e \in PhysEntities : table[e] # NoSlot}

rebuild_slots(order) ==
    /\ physStage = "update"
    /\ LET table == AssignSlots(order, 0, [e \in PhysEntities |-> NoSlot])
       IN /\ entities' = table
          /\ excluded' = physics_active \ SlotHolders(table)
          /\ dropped' = SlotHolders(entities) \ physics_active
    /\ dispatch_size' = DispatchSize(Len(order))
    /\ physStage' = "extracted"
    /\ UNCHANGED <<physics_active, physics_buffer_gpu, voxel_world, physChanged,
                   graphVars, camVars, attVars, voxVars, drawVars>>

\* ---- the Physics pass of the frame
\* as PhysicsPass, run whatever the setting is
PhysicsPass_Always(enabled, buffer, n) ==
    [i \in Slots |-> IF i < n THEN Written(buffer[i]) ELSE buffer[i]]

\* The pass advances the state of the slots below dispatch_size; switched off,
\* it is a no-op.
PhysicsPass(enabled, buffer, n) ==
    IF enabled
    THEN [i \in Slots |-> IF i < n THEN Written(buffer[i]) ELSE buffer[i]]
    ELSE buffer

\* The pass writes the simulated entities' voxels into the world.
PhysicsWorld(enabled, world, n) == IF enabled /\ n > 0 THEN Written(world) ELSE world

physics_pass ==
    /\ physStage = "extracted"
    /\ physics_buffer_gpu' = PhysicsPass(settings.physics, physics_buffer_gpu, dispatch_size)
    /\ voxel_world' = PhysicsWorld(settings.physics, voxel_world, dispatch_size)
    /\ physChanged' = (physics_buffer_gpu' # physics_buffer_gpu \/ voxel_world' # voxel_world)
    /\ physStage' = "passed"
    /\ UNCHANGED <<physics_active, entities, dispatch_size, excluded, dropped,
                   graphVars, camVars, attVars, voxVars, drawVars>>

EndPhysicsFrame ==
    /\ physStage = "passed"
    /\ physStage' = "update"
    /\ UNCHANGED <<physics_active, entities, dispatch_size, excluded, dropped,
                   physics_buffer_gpu, voxel_world, physChanged, graphVars, camVars, attVars, voxVars, drawVars>>

PhysNext ==
    \/ \E e \in PhysEntities : EnablePhysics(e)
    \/ \E e \in PhysEntities : DisablePhysics(e)
    \/ SetPhysicsSetting
    \/ \E order \in Orders(physics_active) : rebuild_slots(order)
    \/ physics_pass
    \/ EndPhysicsFrame

\* ======================================================================
\* Voxelization (voxelization.rs): the uniforms of the entities that have a
\* VoxelizationMaterial, and the image and cameras of the voxelization pass
\* ======================================================================
VoxEntities == 1..MaxVoxEntities

\* The largest u8.
U8Max == 255

\* The material id that stands for "use the texture".
UseTexture == 255

\* VoxelizationMaterial::default() is Material(10).
DefaultMaterial == 10

\* The material indices a Material(u8) is tried with: the ends of the u8 range,
\* the default, and the largest index below UseTexture.
MaterialIndices == {0, DefaultMaterial, U8Max - 1, U8Max}

TextureHandles == {"texture"}

FlagBytes == {0, 1}

\* VoxelizationMaterial { material: Texture(handle) | Material(u8), flags: u8 }
VoxelizationMaterials ==
    [kind : {"Texture"}, value : TextureHandles, flags : FlagBytes]
        \cup [kind : {"Material"}, value : MaterialIndices, flags : FlagBytes]

NoMaterial == [kind |-> "none", value |-> 0, flags |-> 0]

NoEntry == [material |-> -1, flags |-> -1]

\* impl From<&VoxelizationMaterial> for VoxelizationUniforms
VoxelizationUniformsFrom(value) ==
    [material |-> IF value.kind = "Texture" THEN UseTexture ELSE value.value,
     flags |-> value.flags]

\* The entities of the query (Entity, &VoxelizationMaterial).
VoxQuery(materials) == {e \in VoxEntities : materials[e] # NoMaterial}

\* The keys of the table.
VoxKeys(table) == {e \in VoxEntities : table[e] # NoEntry}

\* as WriteUniforms, with the or_insert and without the set: an entry that
\* exists keeps its value
WriteUniforms_InsertOnly(table, materials) ==
    [e \in VoxEntities |->
        IF e \in VoxQuery(materials) /\ table[e] = NoEntry
        THEN VoxelizationUniformsFrom(materials[e]) ELSE table[e]]

\* The first loop: entry(entity).or_insert(..), then set(..) and write_buffer.
WriteUniforms(table, materials) ==
    [e \in VoxEntities |->
        IF e \in VoxQuery(materials) THEN VoxelizationUniformsFrom(materials[e]) ELSE table[e]]

\* as SweepUniforms, keeping every entry
SweepUniforms_Never(table, materials) == table

\* The sweep: every key that the query does not have is removed.
SweepUniforms(table, materials) ==
    [e \in VoxEntities |-> IF e \in VoxQuery(materials) THEN table[e] ELSE NoEntry]

\* One run of the system; materials is what was extracted for this frame.
queue_bind_group(materials) ==
    /\ voxelization_materials' = materials
    /\ LET written == WriteUniforms(voxelization_uniforms, materials)
       IN /\ voxelization_uniforms' = SweepUniforms(written, materials)
          /\ swept' = VoxKeys(written) \ VoxKeys(SweepUniforms(written, materials))
    /\ UNCHANGED <<texture_size, voxelization_image, voxelization_cameras, edgeBefore,
                   rewritten, camerasUpdated, graphVars, camVars, attVars, physVars, drawVars>>

\* ---- the voxelization image and cameras
TextureSizes == 1..MaxTextureSize

\* setup: for i in 0..3
NumVoxelizationCameras == 3

VoxelizationCameraIds == 0..(NumVoxelizationCameras - 1)

\* setup: an image of 1x1
InitialEdge == 1

\* Camera3dBundle's default transform and projection.
DefaultCamera == [looking_at |-> "default", size |-> 0]

\* looking_at(Vec3::X, ..), (Vec3::Y, ..), (Vec3::Z, ..) for the cameras 0, 1, 2
LookingAt(i) == CASE i = 0 -> "X" [] i = 1 -> "Y" [] OTHER -> "Z"

VoxInit ==
    /\ voxelization_materials = [e \in VoxEntities |-> NoMaterial]
    /\ voxelization_uniforms = [e \in VoxEntities |-> NoEntry]
    /\ swept = {}
    /\ texture_size = InitialEdge
    /\ voxelization_image = InitialEdge
    /\ voxelization_cameras = [i \in VoxelizationCameraIds |-> DefaultCamera]
    /\ edgeBefore = InitialEdge
    /\ rewritten = FALSE
    /\ camerasUpdated = FALSE

\* A world of another texture size is loaded.
LoadVoxelWorld(size) ==
    /\ size # texture_size
    /\ texture_size' = size
    /\ camerasUpdated' = FALSE
    /\ UNCHANGED <<voxelization_materials, voxelization_uniforms, swept, voxelization_image,
                   voxelization_cameras, edgeBefore, rewritten, graphVars, camVars, attVars,
                   physVars, drawVars>>

\* as NeedsUpdate, updating on every run
NeedsUpdate_Always(edge, size) == TRUE

\* voxelization_image.size().x as u32 != voxel_uniforms.texture_size
NeedsUpdate(edge, size) == edge # size

update_cameras ==
    /\ edgeBefore' = voxelization_image
    /\ rewritten' = NeedsUpdate(voxelization_image, texture_size)
    /\ IF NeedsUpdate(voxelization_image, texture_size)
       THEN /\ voxelization_image' = texture_size
            /\ voxelization_cameras' =
                  [i \in VoxelizationCameraIds |->
                      [looking_at |-> LookingAt(i), size |-> texture_size]]
       ELSE UNCHANGED <<voxelization_image, voxelization_cameras>>
    /\ camerasUpdated' = TRUE
    /\ UNCHANGED <<voxelization_materials, voxelization_uniforms, swept, texture_size, graphVars,
                   camVars, attVars, physVars, drawVars>>

VoxNext ==
    \E materials \in [VoxEntities -> VoxelizationMaterials \cup {NoMaterial}] :
        queue_bind_group(materials)

VoxCamerasNext ==
    \/ \E size \in TextureSizes : LoadVoxelWorld(size)
    \/ update_cameras

\* ======================================================================
\* queue_custom (voxelization.rs): the voxelization draw items of a frame
\* ======================================================================
DrawInit ==
    /\ transparent_phase = {}
    /\ drawable = {}

\* The entities of material_meshes that have a mesh instance whose mesh is
\* prepared; the two `continue`s of the inner loop skip the others.
Drawable(material_meshes, mesh_ready) == material_meshes \cap mesh_ready

\* as QueueCustomItems, without the early return
QueueCustomItems_Always(voxelization, vs, ents) == {<<v, e>> : v \in vs, e \in ents}

\* if !render_graph_settings.voxelization { return; }, then one Transparent3d
\* item per view and drawable entity.
QueueCustomItems(voxelization, vs, ents) ==
    IF ~voxelization THEN {} ELSE {<<v, e>> : v \in vs, e \in ents}

\* One run of the system, in the Queue step of the frame, before the graph runs;
\* the views' phases are new every frame.
queue_custom(material_meshes, mesh_ready) ==
    /\ phase = "idle"
    /\ phase' = "queued"
    /\ drawable' = Drawable(material_meshes, mesh_ready)
    /\ transparent_phase' =
          QueueCustomItems(settings.voxelization, views, Drawable(material_meshes, mesh_ready))
    /\ UNCHANGED <<mainRan, viewRan, queue, cur, dispatched, slots, traceBind, worldVars,
                   camVars, attVars, physVars, voxVars>>

\* The settings the two passes read.
PassSettings == {"trace", "voxelization"}

DisabledPassesNext ==
    \/ \E s \in PassSettings : SetSetting(s)
    \/ \E material_meshes \in SUBSET VoxEntities : \E mesh_ready \in SUBSET VoxEntities :
          queue_custom(material_meshes, mesh_ready)
    \/ GraphFrame

\* ======================================================================
\* The specifications
\* ======================================================================
Init == GraphInit /\ CamInit /\ AttInit /\ PhysInit /\ VoxInit /\ DrawInit

SpecGraph == Init /\ [][GraphNext]_vars

SpecCameras == Init /\ [][CamNext]_vars

SpecAttachments == Init /\ [][AttNext]_vars

\* prepare_uniforms with the views' TraceSettings changing between frames.
TraceSettingsNext ==
    \/ \E e \in Views : \E ts \in TraceSettings : ExtractTraceSettings(e, ts)
    \/ CamNext

SpecTraceSettings == Init /\ [][TraceSettingsNext]_vars

SpecPhysics == Init /\ [][PhysNext]_vars

SpecVoxelization == Init /\ [][VoxNext]_vars

SpecVoxelCameras == Init /\ [][VoxCamerasNext]_vars

\* The frames of the render graph with queue_custom before them, under the
\* settings of the two passes.
SpecDisabledPasses == Init /\ [][DisabledPassesNext]_vars

\* ======================================================================
\* The render graph's claims (SpecGraph). A step runs at most one node, so
\* "b has run this frame => a has run this frame" in every state says that a
\* ran before b.
\* ======================================================================
RanMain(n) == mainRan[n] > 0

RanFor(v, n) == viewRan[v][n] > 0

\* The frame is over: the graph ran to its end, or a node panicked.
FrameOver == phase \in {"done", "crashed"}

\* C1: in every frame Clear runs before Automata, Automata before Animation and
\* Animation before the camera driver, and no node of a view's sub graph runs
\* before the frame's Animation node has run.
C1_GlobalChainOrder ==
    /\ RanMain("Automata") => RanMain("Clear")
    /\ RanMain("Animation") => RanMain("Automata")
    /\ RanMain(CameraDriverLabel) => RanMain("Animation")
    /\ \A v \in Views : \A n \in VoxelNodes : RanFor(v, n) => RanMain("Animation")

\* a frame is over in which the sub graph ran for a view, after the global chain
C1_Witness ==
    /\ phase = "done"
    /\ \E v \in views : SubGraphDone(v)
    /\ RanMain("Clear") /\ RanMain("Animation")

\* C2: for every view the sub graph runs Rebuild, Physics, Trace, Tonemapping,
\* Fxaa, Ui and Upscaling in that order: each runs for the view only after its
\* predecessor in the chain has run for that view in the same frame.
ViewChain == <<"Rebuild", "Physics", "Trace", "Tonemapping", "Fxaa", "Ui", "Upscaling">>

C2_ViewChainOrder ==
    \A v \in Views : \A i \in 1..(Len(ViewChain) - 1) :
        RanFor(v, ViewChain[i + 1]) => RanFor(v, ViewChain[i])

\* the last node of the chain has run for a view whose sub graph is being run
C2_Witness == \E v \in Views : cur = v /\ RanFor(v, "Upscaling") /\ phase = "running"

\* C3 (the claim as stated): Attachments runs before Trace for every view, and
\* the normal and position textures Trace binds are the ones the view's
\* Attachments node handed over through the slot edges "normal" -> "normal" and
\* "position" -> "position".
C3_TraceBindsSlotInputs ==
    \A v \in Views :
        /\ RanFor(v, "Trace") => RanFor(v, "Attachments")
        /\ traceBind[v] # NoBind =>
              /\ traceBind[v].from = "slot_edge"
              /\ traceBind[v].normal = slots[v].normal
              /\ traceBind[v].position = slots[v].position

\* C4 (the claim as stated): Attachments runs before Rebuild, and so before
\* Physics, for every view in every frame.
C4_AttachmentsBeforeRebuild ==
    \A v \in Views :
        /\ RanFor(v, "Rebuild") => RanFor(v, "Attachments")
        /\ RanFor(v, "Physics") => RanFor(v, "Attachments")

\* C4 (amended): Attachments runs before Trace, and Rebuild before Physics before
\* Trace, for every view in every frame; no edge orders Attachments against
\* Rebuild or Physics.
C4_AttachmentsBeforeTrace ==
    \A v \in Views :
        /\ RanFor(v, "Trace") => RanFor(v, "Attachments") /\ RanFor(v, "Physics")
        /\ RanFor(v, "Physics") => RanFor(v, "Rebuild")

\* Trace has just run for a view: Attachments, Rebuild and Physics are behind it
C4_Witness ==
    \E v \in Views : RanFor(v, "Trace") /\ ~RanFor(v, "Tonemapping") /\ phase = "running"

\* C5 (the claim as stated): in a frame with k views Clear, Automata and
\* Animation each run exactly once and each node of the sub graph runs exactly
\* once per view, for every k >= 0.
C5_ExactlyOncePerView ==
    FrameOver =>
        /\ \A n \in RenderGraphLabel : mainRan[n] = 1
        /\ \A v \in Views : \A n \in VoxelNodes :
              viewRan[v][n] = (IF v \in views THEN 1 ELSE 0)

\* The graph node a setting switches; voxelization switches no graph node.
PassOf(s) ==
    CASE s = "clear" -> "Clear"
      [] s = "automata" -> "Automata"
      [] s = "animation" -> "Animation"
      [] s = "rebuild" -> "Rebuild"
      [] s = "physics" -> "Physics"
      [] s = "trace" -> "Trace"
      [] OTHER -> "none"

RECURSIVE Reach(_, _, _)
Reach(edges, from, k) ==
    IF k = 0 THEN from
    ELSE Reach(edges, from \cup {e[2] : e \in {x \in edges : x[1] \in from}}, k - 1)

\* The nodes after n in its own graph.
Downstream(edges, n) == Reach(edges, {n}, Cardinality(edges)) \ {n}

\* C6 (the claim as stated): whatever the seven settings are, a pass that is
\* switched off records no work, and every node downstream of it still runs in
\* that frame: the rest of a main graph node's chain and the sub graph of every
\* view, or the rest of a sub graph node's chain for every view.
C6_DisabledPassKeepsGraph ==
    FrameOver =>
        \A s \in SettingNames :
            ~settings[s] =>
                /\ \A v \in Views \cup {NoView} : <<v, PassOf(s)>> \notin dispatched
                /\ PassOf(s) \in MainNodes =>
                      /\ \A d \in Downstream(MainEdges, PassOf(s)) : mainRan[d] = 1
                      /\ \A v \in views : \A d \in VoxelNodes : viewRan[v][d] = 1
                /\ PassOf(s) \in VoxelNodes =>
                      \A v \in views : \A d \in Downstream(VoxelEdges, PassOf(s)) :
                          viewRan[v][d] = 1

\* ======================================================================
\* The claims about prepare_uniforms (SpecCameras). A state is the end of a
\* frame: uniforms holds what the frame wrote and frameCamera the camera
\* matrices of the frame, so in a step frameCamera is the frame before the one
\* that uniforms' is written in.
\* ======================================================================
\* The views the frame wrote uniforms for.
Processed == {e \in Views : uniforms[e] # NoUniforms}

\* C7: on the first frame in which a view is processed, the last_camera written
\* for it equals the camera matrix computed for it in that same frame.
C7_FirstFrameLastCamera ==
    \A e \in firstFrame :
        /\ e \in Processed
        /\ uniforms[e].camera = frameCamera[e]
        /\ uniforms[e].last_camera = frameCamera[e]

\* a view is on its first frame next to a view seen before, whose last_camera
\* differs from its camera
C7_Witness ==
    \E e \in firstFrame : \E f \in Processed \ firstFrame :
        /\ seen # firstFrame
        /\ uniforms[f].last_camera # uniforms[f].camera
        /\ uniforms[e].camera # uniforms[f].last_camera

\* C8 (the claim as stated): for every view processed on a frame that is not its
\* first, the last_camera written equals the view's camera matrix on the
\* immediately preceding frame, also when the view was absent on that frame.
C8_LastCameraIsPreviousFrame ==
    [][\A e \in Views :
          (uniforms'[e] # NoUniforms /\ e \notin firstFrame') =>
              uniforms'[e].last_camera = frameCamera[e]]_vars

\* The entries of the table for views the frame did not process.
StaleEntries == LastCameraKeys \ Processed

\* C9: the key set of the last-camera table is exactly the set of views that
\* have been processed in at least one frame so far; no entry is ever removed,
\* and the stale entries are never more than the views ever seen.
C9_TableKeysAreViewsEverSeen ==
    /\ LastCameraKeys = seen
    /\ Cardinality(StaleEntries) <= Cardinality(seen)

\* a view that was processed in an earlier frame is absent, and its entry is
\* still in the table, while another view is processed
C9_Witness ==
    /\ StaleEntries # {}
    /\ Processed # {}
    /\ \A e \in StaleEntries : last_cameras[e] \in Mats

\* ======================================================================
\* The claims about resize_attachments (SpecAttachments). processed, sizeBefore
\* and resizes record one run of the system: the cameras its loop handled, the
\* size each had recorded when the run started, and the resizes of every image.
\* ======================================================================
ResizeRan == "resize_attachments" \in schedule

\* The number of resizes the run made of each of the two images of camera v.
Reallocations(v) ==
    <<resizes[render_attachments[v].normal], resizes[render_attachments[v].position]>>

ImageMissing(v) == ViewQueryMatches(v) /\ ~(HandlesOf(v) \subseteq gpuImages)

\* C11 (the claim as stated): when the Trace node has run for a view whose normal
\* or position image is not on the GPU, it has recorded no pass for the view and
\* the frame has not been aborted.
C11_MissingImageSkipsTrace ==
    \A v \in Views :
        (RanFor(v, "Trace") /\ ImageMissing(v)) =>
            /\ phase # "crashed"
            /\ <<v, "Trace">> \notin dispatched

\* C12 (the claim as stated): at the end of a frame with a view that has no
\* RenderAttachments, Trace has recorded no pass for that view, every node of
\* the main graph has run, and every node of the sub graph has run for every
\* other view of the frame.
C12_MissingAttachmentsSkipsOnlyThatView ==
    FrameOver =>
        \A v \in views :
            renderAttachments[v] = NoAttachments =>
                /\ <<v, "Trace">> \notin dispatched
                /\ \A n \in MainNodes : mainRan[n] = 1
                /\ \A w \in views \ {v} : \A n \in VoxelNodes : viewRan[w][n] = 1

\* ======================================================================
\* The render toggles in the uniforms (SpecTraceSettings)
\* ======================================================================
\* C13 (the claim as stated): the uniforms written for a view in a frame carry
\* the show_ray_steps, samples and shadows of the view's TraceSettings in that
\* frame.
C13_UniformsCarryTraceSettings ==
    \A e \in Processed :
        /\ uniforms[e].show_ray_steps = trace_settings[e].show_ray_steps
        /\ uniforms[e].samples = trace_settings[e].samples
        /\ uniforms[e].shadows = trace_settings[e].shadows

\* ======================================================================
\* The claims about the physics slot table and the Physics pass (SpecPhysics)
\* ======================================================================
\* The table is the one the frame's rebuild made.
Rebuilt == physStage \in {"extracted", "passed"}

Min(a, b) == IF a < b THEN a ELSE b

\* C14: after every rebuild the table is a bijection between the entities that
\* have a slot and [0, dispatch_size): no slot is shared and none is left out;
\* dispatch_size is the number of physics-active entities, capped at the
\* capacity, and while the entities fit, the entities with a slot are exactly
\* the physics-active ones.
C14_SlotsAreDense ==
    Rebuilt =>
        /\ dispatch_size = Min(Cardinality(physics_active), MaxSlots)
        /\ SlotHolders(entities) \subseteq physics_active
        /\ \A e \in SlotHolders(entities) : entities[e] \in 0..(dispatch_size - 1)
        /\ \A i \in 0..(dispatch_size - 1) : \E e \in SlotHolders(entities) : entities[e] = i
        /\ \A e, f \in SlotHolders(entities) : entities[e] = entities[f] => e = f
        /\ Cardinality(physics_active) <= MaxSlots => SlotHolders(entities) = physics_active

\* the rebuild after one entity of two left: the other one has slot 0
C14_Witness ==
    /\ physStage = "extracted"
    /\ Cardinality(dropped) = 1
    /\ dispatch_size = 1
    /\ \E e \in physics_active \ dropped : entities[e] = 0

\* C15: with more physics-active entities than the buffer has slots, the
\* rebuild caps dispatch_size at the capacity, gives exactly that many entities
\* a slot and leaves the others without one; with no more entities than slots,
\* no entity is left without a slot.
C15_OverflowIsCapped ==
    Rebuilt =>
        /\ dispatch_size <= MaxSlots
        /\ Cardinality(SlotHolders(entities)) = dispatch_size
        /\ excluded = physics_active \ SlotHolders(entities)
        /\ Cardinality(physics_active) > MaxSlots =>
              /\ dispatch_size = MaxSlots
              /\ Cardinality(excluded) = Cardinality(physics_active) - MaxSlots
              /\ \A e \in excluded : entities[e] = NoSlot
        /\ Cardinality(physics_active) <= MaxSlots => excluded = {}

\* a rebuild with one entity more than the buffer has slots
C15_Witness ==
    /\ physStage = "extracted"
    /\ Cardinality(physics_active) > MaxSlots
    /\ excluded # {}
    /\ dispatch_size = MaxSlots

\* C16: a Physics pass run while the physics setting is false leaves the
\* physics buffer and the voxel world as they were.
C16_DisabledPhysicsChangesNothing ==
    (physStage = "passed" /\ ~settings.physics) => ~physChanged

\* a pass with the setting off, over slots in use that earlier passes have written
C16_Witness ==
    /\ physStage = "passed"
    /\ ~settings.physics
    /\ dispatch_size > 0
    /\ physics_buffer_gpu[0] = "b"
    /\ ~physChanged

\* ======================================================================
\* The claims about the voxelization uniforms (SpecVoxelization). A state is the
\* end of a frame's queue_bind_group; voxelization_materials is that frame's query.
\* ======================================================================
Present == VoxQuery(voxelization_materials)

\* C17 (the claim as stated): an entity's entry holds the uniforms of its
\* material in every frame the entity is present, still exists at the end of the
\* first frame in which the entity is absent, and is gone after the frame that
\* follows.
C17_EntryRemovedOneFrameLate ==
    [][\A e \in VoxEntities :
          /\ e \in Present' =>
                voxelization_uniforms'[e] = VoxelizationUniformsFrom(voxelization_materials'[e])
          /\ (e \in Present /\ e \notin Present') => voxelization_uniforms'[e] # NoEntry
          /\ (e \notin Present /\ e \notin Present') => voxelization_uniforms'[e] = NoEntry]_vars

\* C17 (amended): an entity's entry is created on the first frame the entity is
\* present and rewritten on every frame it is present, and the sweep at the end
\* of the first frame in which the entity is absent removes it: at the end of
\* every frame the table's keys are exactly the entities of that frame.
C17_EntriesAreTheFramesEntities ==
    \A e \in VoxEntities :
        IF e \in Present
        THEN voxelization_uniforms[e] = VoxelizationUniformsFrom(voxelization_materials[e])
        ELSE voxelization_uniforms[e] = NoEntry

\* a frame swept the entry of an entity that is gone, and wrote another's
C17_Witness ==
    /\ swept # {}
    /\ swept \cap Present = {}
    /\ Present # {}
    /\ \A e \in swept : voxelization_uniforms[e] = NoEntry

\* C18 (the claim as stated): the material written for an entity is 255 exactly
\* when its material is a texture reference; a Material(index) yields the
\* index, which is in 0..254.
C18_TextureIdIsReserved ==
    \A e \in Present :
        /\ voxelization_uniforms[e].material = UseTexture
              <=> voxelization_materials[e].kind = "Texture"
        /\ voxelization_materials[e].kind = "Material" =>
              /\ voxelization_uniforms[e].material = voxelization_materials[e].value
              /\ voxelization_uniforms[e].material \in 0..(UseTexture - 1)

\* ======================================================================
\* The claim about update_cameras (SpecVoxelCameras)
\* ======================================================================
\* C19: a run of update_cameras rewrites the voxelization image and the three
\* cameras exactly when the texture size differs from the image's edge; after
\* the run the edge equals the texture size, and the cameras were last set for
\* the image's edge, so a run with the texture size unchanged rewrites nothing.
C19_CamerasRewrittenOnlyOnChange ==
    camerasUpdated =>
        /\ rewritten <=> (edgeBefore # texture_size)
        /\ voxelization_image = texture_size
        /\ rewritten =>
              \A i \in VoxelizationCameraIds :
                  voxelization_cameras[i] = [looking_at |-> LookingAt(i), size |-> texture_size]
        /\ \A i \in VoxelizationCameraIds :
              voxelization_cameras[i] = DefaultCamera
                  \/ voxelization_cameras[i].size = voxelization_image

\* a run with the texture size a rewrite of an earlier frame left the image at
C19_Witness ==
    /\ camerasUpdated
    /\ ~rewritten
    /\ texture_size # InitialEdge
    /\ voxelization_image = texture_size
    /\ voxelization_cameras[0].size = texture_size

\* ======================================================================
\* The claim about the views' attachment sets (SpecAttachments)
\* ======================================================================
\* The images of the view's attachment set, and of the set queued for it.
OwnedImages(v) ==
    {render_attachments[v].normal, render_attachments[v].position,
     commands[v].normal, commands[v].position} \ {NoHandle}

\* C20: a view's normal and position images are two images, no image belongs to
\* two views, every image a view has exists, and no attachment set is queued
\* for a view that has one.
C20_AttachmentSetsAreDisjoint ==
    /\ \A v \in Views :
          /\ render_attachments[v] # NoRenderAttachments =>
                /\ render_attachments[v].normal # render_attachments[v].position
                /\ commands[v] = NoRenderAttachments
          /\ commands[v] # NoRenderAttachments => commands[v].normal # commands[v].position
          /\ \A h \in OwnedImages(v) : images[h] # NoSize
    /\ \A v, w \in Views : v # w => OwnedImages(v) \cap OwnedImages(w) = {}

\* add_render_attachments has run with one view that has its set and one that
\* gets one
C20_Witness ==
    /\ "add_render_attachments" \in schedule
    /\ \E v, w \in Views :
          /\ render_attachments[v] # NoRenderAttachments
          /\ commands[w] # NoRenderAttachments
          /\ images[render_attachments[v].normal] # InitialSize

\* ======================================================================
\* The disabled passes' claims (SpecDisabledPasses)
\* ======================================================================
\* C21: in a frame where the trace setting is false the Trace node records no
\* render pass for any view and the frame does not fail, whatever the state of
\* the pipeline and of the attachment images; in a frame where the voxelization
\* setting is false no voxelization draw item is queued for any view or entity.
C21_DisabledPassesDoNothing ==
    /\ ~settings.trace =>
          /\ phase # "crashed"
          /\ \A v \in Views : <<v, "Trace">> \notin dispatched /\ traceBind[v] = NoBind
    /\ ~settings.voxelization => transparent_phase = {}

\* Both settings are off; the Trace node has run for a view whose attachment
\* images are missing while the pipeline is not compiled, and queue_custom has
\* run with a drawable entity.
C21_Witness ==
    /\ ~settings.trace
    /\ ~settings.voxelization
    /\ phase = "done"
    /\ ~pipelineReady
    /\ drawable # {}
    /\ \E v \in views :
          /\ ImageMissing(v)
          /\ viewRan[v]["Trace"] = 1

\* ======================================================================
\* The pipeline that is not compiled yet (SpecGraph)
\* ======================================================================
\* C22: in every frame in which trace is enabled and the pipeline cache does not
\* have the trace pipeline, the Trace node records no pass for any view and does
\* not fail on a missing attachment image; the check is made anew in every frame,
\* so in a frame in which the pipeline is there the node records the pass of every
\* view it runs for whose images are there.
C22_PipelineNotReadySkips ==
    /\ (settings.trace /\ ~pipelineReady) =>
          /\ phase # "crashed"
          /\ \A v \in Views : <<v, "Trace">> \notin dispatched /\ traceBind[v] = NoBind
    /\ (settings.trace /\ pipelineReady) =>
          \A v \in Views :
              (ViewQueryMatches(v) /\ ~ImageMissing(v) /\ viewRan[v]["Trace"] = 1)
                  => <<v, "Trace">> \in dispatched

\* Trace is enabled, the pipeline is not compiled, and the frame is over with the
\* Trace node having run for a view whose attachment images are missing.
C22_Witness ==
    /\ settings.trace
    /\ ~pipelineReady
    /\ phase = "done"
    /\ \E v \in views : ImageMissing(v) /\ viewRan[v]["Trace"] = 1

\* ======================================================================
\* The sizes after resize_attachments (SpecAttachments)
\* ======================================================================
\* The recorded size and the two images of camera v are of the camera's
\* viewport size.
SizedToViewport(v) ==
    /\ render_attachments[v].current_size = viewport[v]
    /\ images[render_attachments[v].normal] = viewport[v]
    /\ images[render_attachments[v].position] = viewport[v]

\* C23 (the claim as stated): after every run of resize_attachments, every camera
\* that has attachments and reports a viewport size has that size recorded, and
\* its normal and position images are of that size.
C23_SizesMatchAfterResize ==
    ResizeRan =>
        \A v \in ResizeQuery : viewport[v] # NoSize => SizedToViewport(v)

\* ======================================================================
\* The uniform table after queue_bind_group (SpecVoxelization)
\* ======================================================================
\* C24: after every run of queue_bind_group the keys of the uniform table are
\* exactly the entities that have a voxelization material in that frame, and
\* the entry of each holds the flags of the entity's descriptor of that frame and
\* its material: the index of a Material, the texture id of a Texture.
C24_TableIsTheFramesQuery ==
    /\ VoxKeys(voxelization_uniforms) = Present
    /\ \A e \in Present :
          /\ voxelization_uniforms[e].flags = voxelization_materials[e].flags
          /\ voxelization_materials[e].kind = "Material" =>
                voxelization_uniforms[e].material = voxelization_materials[e].value
          /\ voxelization_materials[e].kind = "Texture" =>
                voxelization_uniforms[e].material = UseTexture

\* a run has written the entries of two entities, one with a Texture and one
\* with a Material below the texture id, with different flags, and swept none
C24_Witness ==
    /\ swept = {}
    /\ \E e \in Present : \E f \in Present :
          /\ voxelization_materials[e].kind = "Texture"
          /\ voxelization_materials[f].kind = "Material"
          /\ voxelization_materials[f].value = U8Max - 1
          /\ voxelization_materials[e].flags # voxelization_materials[f].flags
          /\ voxelization_uniforms[e] # voxelization_uniforms[f]

====
